---- MODULE Spec2Model ----
(***************************************************************************)
(* Model of src/main.rs of expr-builder-pattern: main and the functions it *)
(* calls, as one sequential state machine over an explicit memory.         *)
(*                                                                         *)
(* Memory is a set of blocks (heap blocks handed out by the allocator in   *)
(* any order, plus the stack frames of main and of the running callee).    *)
(* Each block holds one cell per field offset; a cell carries its value    *)
(* and how it got it: "uninit" (never written), "zero" (zero-filled by the *)
(* allocation) or "written" (an explicit store).  Reading an "uninit" cell *)
(* or reading through a pointer into released storage yields any value.    *)
(***************************************************************************)
EXTENDS Integers, FiniteSets

VARIABLES pc, mem, live, marked, box, vecRef, lenRead, log, nalloc, nfree, dblFree

vars == <<pc, mem, live, marked, box, vecRef, lenRead, log, nalloc, nfree, dblFree>>

(* ---- bounds ---- *)
NumBlocks == 4
MaxGarbage == 2

(* ---- layout of the #[repr(C)] structs ---- *)
BlockSize == 16
OffU8 == 0
OffU32 == 4
OffOp == 8
OffF == 0
OffP == 8

Blocks == 1..NumBlocks
StackMain == NumBlocks + 1
StackCallee == NumBlocks + 2
AllBlocks == 1..(NumBlocks + 2)
Offsets == {OffU8, OffU32, OffOp}
Garbage == 0..MaxGarbage

Addr(b, off) == b * BlockSize + off
BlkOf(a) == a \div BlockSize
SlotAddrs == {Addr(b, o) : b \in AllBlocks, o \in Offsets}

Handles == {"five", "astruct", "uas", "uasz", "bas", "x", "z", "uxu", "ux"}
Records == {"bas", "x", "z", "ux"}

UninitCell == [v |-> 0, st |-> "uninit"]
ZeroCell == [v |-> 0, st |-> "zero"]
Written(val) == [v |-> val, st |-> "written"]

(* Fields of the value a handle's box holds. *)
FieldsOf(h) ==
    CASE h = "five" -> {0}
      [] h \in {"uxu", "ux"} -> {OffF, OffP}
      [] OTHER -> {OffU8, OffU32, OffOp}

(* Offset of the pointed-to field and of the pointer field of a record. *)
ValOff(h) == IF h \in {"uxu", "ux"} THEN OffF ELSE OffU32
PtrOff(h) == IF h \in {"uxu", "ux"} THEN OffP ELSE OffOp

(* The values a typed read of address a can produce. *)
ReadVals(a) ==
    IF a \in SlotAddrs /\ live[BlkOf(a)] /\ mem[a].st # "uninit"
    THEN {mem[a].v}
    ELSE Garbage

(* ---- memory operations ---- *)
Fill(b, cell) == [a \in SlotAddrs |-> IF BlkOf(a) = b THEN cell ELSE mem[a]]

Store(a, val) == [mem EXCEPT ![a] = Written(val)]

(* Box::new_uninit / Box::new_zeroed: a fresh block, every cell `cell`. *)
BoxAlloc(h, cell) ==
    \E b \in Blocks :
        /\ ~live[b]
        /\ live' = [live EXCEPT ![b] = TRUE]
        /\ mem' = Fill(b, cell)
        /\ box' = [box EXCEPT ![h] = b]
        /\ nalloc' = nalloc + 1

(* MaybeUninit::assume_init on the box held by `from`; the result is held by `to`. *)
AssumeInit(from, to) ==
    /\ marked' = marked \cup {box[from]}
    /\ box' = IF from = to THEN box
              ELSE [box EXCEPT ![to] = box[from], ![from] = 0]

(* Returning a Box moves the pointer; the block stays where it is. *)
MoveBox(from, to) ==
    /\ box' = [box EXCEPT ![to] = box[from], ![from] = 0]
    /\ mem' = mem
    /\ live' = live

(* Variant: the handle is forgotten and the block never released. *)
DropBox_Leak(h) ==
    /\ live' = live
    /\ dblFree' = dblFree
    /\ mem' = mem
    /\ marked' = marked
    /\ box' = [box EXCEPT ![h] = 0]
    /\ nfree' = nfree

(* Drop of a Box: the block is released. *)
DropBox(h) ==
    /\ IF live[box[h]]
       THEN /\ live' = [live EXCEPT ![box[h]] = FALSE]
            /\ dblFree' = dblFree
       ELSE /\ live' = live
            /\ dblFree' = TRUE
    /\ mem' = Fill(box[h], UninitCell)
    /\ marked' = marked \ {box[h]}
    /\ box' = [box EXCEPT ![h] = 0]
    /\ nfree' = nfree + 1

(* ---- observations ---- *)
ReadEv(h, off) ==
    [k |-> "read", r |-> h, f |-> off, st |-> mem[Addr(box[h], off)].st,
     init |-> box[h] \in marked]

ReadAll(h) == {ReadEv(h, off) : off \in FieldsOf(h)}

(* Reading through the pointer p found in h's pointer field, getting val. *)
DerefEv(h, p, val) ==
    [k |-> "deref", r |-> h, st |-> mem[Addr(box[h], PtrOff(h))].st,
     own |-> (p = Addr(box[h], ValOff(h))),
     tlive |-> (p \in SlotAddrs /\ live[BlkOf(p)]),
     theap |-> (BlkOf(p) \in Blocks),
     same |-> (ReadVals(Addr(box[h], ValOff(h))) = {val})]

(* Option::unwrap on h's pointer field, which reads as p. *)
UnwrapEv(h, p) ==
    [k |-> "unwrap", r |-> h, st |-> mem[Addr(box[h], PtrOff(h))].st,
     some |-> (p # 0)]

(* #[derive(Debug)] output of a record: every field is read, and a non-empty *)
(* pointer field is read through.                                           *)
DebugPrint(h) ==
    \E p \in ReadVals(Addr(box[h], PtrOff(h))) :
        IF p = 0
        THEN log' = log \cup ReadAll(h)
        ELSE \E val \in ReadVals(p) :
                log' = log \cup ReadAll(h) \cup {DerefEv(h, p, val)}

(* ---- test_new_uninit ---- *)
NewUninit_Alloc ==
    /\ pc = "nu51"
    /\ BoxAlloc("five", UninitCell)
    /\ pc' = "nu55"
    /\ UNCHANGED <<marked, vecRef, lenRead, log, nfree, dblFree>>

NewUninit_Write ==
    /\ pc = "nu55"
    /\ mem' = Store(Addr(box["five"], 0), 5)
    /\ pc' = "nu58"
    /\ UNCHANGED <<live, marked, box, vecRef, lenRead, log, nalloc, nfree, dblFree>>

NewUninit_Assume ==
    /\ pc = "nu58"
    /\ AssumeInit("five", "five")
    /\ pc' = "nu58r"
    /\ UNCHANGED <<mem, live, vecRef, lenRead, log, nalloc, nfree, dblFree>>

(* `return *five.assume_init()`: the u32 is read, the box dropped, main prints. *)
NewUninit_Return ==
    /\ pc = "nu58r"
    /\ log' = log \cup {ReadEv("five", 0)}
    /\ DropBox("five")
    /\ pc' = "dv68"
    /\ UNCHANGED <<vecRef, lenRead, nalloc>>

(* ---- test_definitly_not_initialized_using_maybe_uninit ---- *)
VecUninit ==
    /\ pc = "dv68"
    /\ live' = [live EXCEPT ![StackCallee] = TRUE]
    /\ mem' = Fill(StackCallee, UninitCell)
    /\ pc' = "dv69"
    /\ UNCHANGED <<marked, box, vecRef, lenRead, log, nalloc, nfree, dblFree>>

VecRef ==
    /\ pc = "dv69"
    /\ vecRef' = Addr(StackCallee, 0)
    /\ pc' = "dv71"
    /\ UNCHANGED <<mem, live, marked, box, lenRead, log, nalloc, nfree, dblFree>>

(* The reference is returned; the callee's frame, holding the Vec, is gone. *)
VecReturn ==
    /\ pc = "dv71"
    /\ live' = [live EXCEPT ![StackCallee] = FALSE]
    /\ pc' = "m84"
    /\ UNCHANGED <<mem, marked, box, vecRef, lenRead, log, nalloc, nfree, dblFree>>

(* main line 84: .len() through the returned reference. *)
Main_VecLen ==
    /\ pc = "m84"
    /\ \E n \in ReadVals(vecRef) :
          lenRead' = n
    /\ log' = log \cup {[k |-> "veclen", tlive |-> live[BlkOf(vecRef)],
                         st |-> mem[vecRef].st]}
    /\ vecRef' = 0
    /\ pc' = "m87"
    /\ UNCHANGED <<mem, live, marked, box, nalloc, nfree, dblFree>>

(* ---- main, lines 87-92: the stack record ---- *)
Main_Astruct ==
    /\ pc = "m87"
    /\ mem' = [mem EXCEPT ![Addr(StackMain, OffU8)] = Written(1),
                          ![Addr(StackMain, OffU32)] = Written(321),
                          ![Addr(StackMain, OffOp)] = Written(0)]
    /\ box' = [box EXCEPT !["astruct"] = StackMain]
    /\ marked' = marked \cup {StackMain}
    /\ pc' = "m92"
    /\ UNCHANGED <<live, vecRef, lenRead, log, nalloc, nfree, dblFree>>

Main_PrintAstruct ==
    /\ pc = "m92"
    /\ DebugPrint("astruct")
    /\ pc' = "m94"
    /\ UNCHANGED <<mem, live, marked, box, vecRef, lenRead, nalloc, nfree, dblFree>>

(* ---- test_box_astruct, called at line 94 ---- *)
Box_New ==
    /\ pc = "m94"
    /\ \E b \in Blocks :
        /\ ~live[b]
        /\ live' = [live EXCEPT ![b] = TRUE]
        /\ mem' = [mem EXCEPT ![Addr(b, OffU8)] = Written(1),
                              ![Addr(b, OffU32)] = Written(123),
                              ![Addr(b, OffOp)] = Written(0)]
        /\ box' = [box EXCEPT !["bas"] = b]
        /\ marked' = marked \cup {b}
    /\ nalloc' = nalloc + 1
    /\ pc' = "m95"
    /\ UNCHANGED <<vecRef, lenRead, log, nfree, dblFree>>
(* Variant: the patch step also stores to a_u32. *)
Main_PatchBas_Clobber ==
    /\ pc = "m95"
    /\ mem' = [mem EXCEPT ![Addr(box["bas"], OffOp)] = Written(Addr(box["bas"], OffU32)),
                          ![Addr(box["bas"], OffU32)] = Written(456)]
    /\ pc' = "m96"
    /\ UNCHANGED <<live, marked, box, vecRef, lenRead, log, nalloc, nfree, dblFree>>

(* line 95: bas.op_a_u32 = Some(&bas.a_u32) *)
Main_PatchBas ==
    /\ pc = "m95"
    /\ mem' = Store(Addr(box["bas"], OffOp), Addr(box["bas"], OffU32))
    /\ pc' = "m96"
    /\ UNCHANGED <<live, marked, box, vecRef, lenRead, log, nalloc, nfree, dblFree>>

Main_PrintBas ==
    /\ pc = "m96"
    /\ DebugPrint("bas")
    /\ pc' = "mu25"
    /\ UNCHANGED <<mem, live, marked, box, vecRef, lenRead, nalloc, nfree, dblFree>>

(* ---- test_maybe_uninit_astruct, called at line 98 ---- *)
MaybeUninit_Alloc ==
    /\ pc = "mu25"
    /\ BoxAlloc("uas", UninitCell)
    /\ pc' = "mu28"
    /\ UNCHANGED <<marked, vecRef, lenRead, log, nfree, dblFree>>

MaybeUninit_WriteU8 ==
    /\ pc = "mu28"
    /\ mem' = Store(Addr(box["uas"], OffU8), 4)
    /\ pc' = "mu29"
    /\ UNCHANGED <<live, marked, box, vecRef, lenRead, log, nalloc, nfree, dblFree>>
(* Variant: line 29 missing, as lines 42-43 are in the zeroed constructor. *)
MaybeUninit_WriteU32_Missing ==
    /\ pc = "mu29"
    /\ pc' = "mu30"
    /\ UNCHANGED <<mem, live, marked, box, vecRef, lenRead, log, nalloc, nfree, dblFree>>

MaybeUninit_WriteU32 ==
    /\ pc = "mu29"
    /\ mem' = Store(Addr(box["uas"], OffU32), 456)
    /\ pc' = "mu30"
    /\ UNCHANGED <<live, marked, box, vecRef, lenRead, log, nalloc, nfree, dblFree>>
(* Variant: the reference is taken to the wrong field (a_u8). *)
MaybeUninit_WriteOp_WrongField ==
    /\ pc = "mu30"
    /\ mem' = Store(Addr(box["uas"], OffOp), Addr(box["uas"], OffU8))
    /\ pc' = "mu31"
    /\ UNCHANGED <<live, marked, box, vecRef, lenRead, log, nalloc, nfree, dblFree>>

MaybeUninit_WriteOp ==
    /\ pc = "mu30"
    /\ mem' = Store(Addr(box["uas"], OffOp), Addr(box["uas"], OffU32))
    /\ pc' = "mu31"
    /\ UNCHANGED <<live, marked, box, vecRef, lenRead, log, nalloc, nfree, dblFree>>

MaybeUninit_Assume ==
    /\ pc = "mu31"
    /\ AssumeInit("uas", "uas")
    /\ pc' = "mu31r"
    /\ UNCHANGED <<mem, live, vecRef, lenRead, log, nalloc, nfree, dblFree>>
(* Variant: the record is returned by value and boxed again by the caller. *)
MaybeUninit_Return_ByValue ==
    /\ pc = "mu31r"
    /\ \E b \in Blocks :
        /\ ~live[b]
        /\ live' = [live EXCEPT ![b] = TRUE, ![box["uas"]] = FALSE]
        /\ mem' = [a \in SlotAddrs |->
                      IF BlkOf(a) = b THEN mem[Addr(box["uas"], a % BlockSize)]
                      ELSE IF BlkOf(a) = box["uas"] THEN UninitCell
                      ELSE mem[a]]
        /\ box' = [box EXCEPT !["x"] = b, !["uas"] = 0]
        /\ marked' = (marked \ {box["uas"]}) \cup {b}
    /\ pc' = "m99"
    /\ UNCHANGED <<vecRef, lenRead, log, nalloc, nfree, dblFree>>

MaybeUninit_Return ==
    /\ pc = "mu31r"
    /\ MoveBox("uas", "x")
    /\ pc' = "m99"
    /\ UNCHANGED <<marked, vecRef, lenRead, log, nalloc, nfree, dblFree>>

(* ---- main, lines 99-116: x ---- *)
(* lines 99-102: addresses are printed; unwrap reads op_a_u32 and panics on None. *)
Main_PrintX ==
    /\ pc = "m99"
    /\ \E p \in ReadVals(Addr(box["x"], OffOp)) :
          /\ pc' = IF p = 0 THEN "panicked" ELSE "m103"
          /\ log' = log \cup {ReadEv("x", OffOp), UnwrapEv("x", p)}
    /\ UNCHANGED <<mem, live, marked, box, vecRef, lenRead, nalloc, nfree, dblFree>>

(* line 103: assert_eq!(&x.a_u32, x.op_a_u32.unwrap()) compares the pointees. *)
Main_AssertX ==
    /\ pc = "m103"
    /\ \E p \in ReadVals(Addr(box["x"], OffOp)) :
          IF p = 0
          THEN /\ pc' = "panicked"
               /\ log' = log \cup {ReadEv("x", OffOp), UnwrapEv("x", p)}
          ELSE \E val \in ReadVals(p), d \in ReadVals(Addr(box["x"], OffU32)) :
                  /\ pc' = IF val = d THEN "m106" ELSE "panicked"
                  /\ log' = log \cup {ReadEv("x", OffOp), ReadEv("x", OffU32),
                                      UnwrapEv("x", p), DerefEv("x", p, val)}
    /\ UNCHANGED <<mem, live, marked, box, vecRef, lenRead, nalloc, nfree, dblFree>>

(* lines 106-116: raw pointers to the fields; the word in op_a_u32 is read. *)
Main_RawPtrs ==
    /\ pc = "m106"
    /\ log' = log \cup {ReadEv("x", OffOp)}
    /\ pc' = "mz38"
    /\ UNCHANGED <<mem, live, marked, box, vecRef, lenRead, nalloc, nfree, dblFree>>
(* Variant: new_uninit where the code calls new_zeroed. *)
Zeroed_Alloc_Uninit ==
    /\ pc = "mz38"
    /\ BoxAlloc("uasz", UninitCell)
    /\ pc' = "mz41"
    /\ UNCHANGED <<marked, vecRef, lenRead, log, nfree, dblFree>>

(* ---- test_maybe_uninit_zeroed_astruct, called at line 118 ---- *)
Zeroed_Alloc ==
    /\ pc = "mz38"
    /\ BoxAlloc("uasz", ZeroCell)
    /\ pc' = "mz41"
    /\ UNCHANGED <<marked, vecRef, lenRead, log, nfree, dblFree>>

Zeroed_WriteU8 ==
    /\ pc = "mz41"
    /\ mem' = Store(Addr(box["uasz"], OffU8), 4)
    /\ pc' = "mz44"
    /\ UNCHANGED <<live, marked, box, vecRef, lenRead, log, nalloc, nfree, dblFree>>

Zeroed_Assume ==
    /\ pc = "mz44"
    /\ AssumeInit("uasz", "uasz")
    /\ pc' = "mz44r"
    /\ UNCHANGED <<mem, live, vecRef, lenRead, log, nalloc, nfree, dblFree>>

Zeroed_Return ==
    /\ pc = "mz44r"
    /\ MoveBox("uasz", "z")
    /\ pc' = "m119"
    /\ UNCHANGED <<marked, vecRef, lenRead, log, nalloc, nfree, dblFree>>

(* ---- main, lines 119-121: z ---- *)
Main_PrintZ ==
    /\ pc = "m119"
    /\ DebugPrint("z")
    /\ pc' = "m120"
    /\ UNCHANGED <<mem, live, marked, box, vecRef, lenRead, nalloc, nfree, dblFree>>
(* Variant: z is patched with a reference into x. *)
Main_PatchZ_OtherRecord ==
    /\ pc = "m120"
    /\ mem' = Store(Addr(box["z"], OffOp), Addr(box["x"], OffU32))
    /\ pc' = "m121"
    /\ UNCHANGED <<live, marked, box, vecRef, lenRead, log, nalloc, nfree, dblFree>>

Main_PatchZ ==
    /\ pc = "m120"
    /\ mem' = Store(Addr(box["z"], OffOp), Addr(box["z"], OffU32))
    /\ pc' = "m121"
    /\ UNCHANGED <<live, marked, box, vecRef, lenRead, log, nalloc, nfree, dblFree>>

Main_PrintZ2 ==
    /\ pc = "m121"
    /\ DebugPrint("z")
    /\ pc' = "m133"
    /\ UNCHANGED <<mem, live, marked, box, vecRef, lenRead, nalloc, nfree, dblFree>>

(* ---- main, lines 133-143: Xstruct ---- *)
Xstruct_Alloc ==
    /\ pc = "m133"
    /\ BoxAlloc("uxu", UninitCell)
    /\ pc' = "m135"
    /\ UNCHANGED <<marked, vecRef, lenRead, log, nfree, dblFree>>

Xstruct_WriteF ==
    /\ pc = "m135"
    /\ mem' = Store(Addr(box["uxu"], OffF), 47)
    /\ pc' = "m136"
    /\ UNCHANGED <<live, marked, box, vecRef, lenRead, log, nalloc, nfree, dblFree>>
(* Variant: p is pointed at itself instead of at f. *)
Xstruct_WriteP_Self ==
    /\ pc = "m136"
    /\ mem' = Store(Addr(box["uxu"], OffP), Addr(box["uxu"], OffP))
    /\ pc' = "m138"
    /\ UNCHANGED <<live, marked, box, vecRef, lenRead, log, nalloc, nfree, dblFree>>

Xstruct_WriteP ==
    /\ pc = "m136"
    /\ mem' = Store(Addr(box["uxu"], OffP), Addr(box["uxu"], OffF))
    /\ pc' = "m138"
    /\ UNCHANGED <<live, marked, box, vecRef, lenRead, log, nalloc, nfree, dblFree>>

(* line 138: let ux = unsafe { ux.assume_init() } *)
Xstruct_Assume ==
    /\ pc = "m138"
    /\ AssumeInit("uxu", "ux")
    /\ pc' = "m140"
    /\ UNCHANGED <<mem, live, vecRef, lenRead, log, nalloc, nfree, dblFree>>

(* lines 140-143: Debug output of ux, then addresses only. *)
Main_PrintUx ==
    /\ pc = "m140"
    /\ DebugPrint("ux")
    /\ pc' = "drop_ux"
    /\ UNCHANGED <<mem, live, marked, box, vecRef, lenRead, nalloc, nfree, dblFree>>

(* ---- main, line 144: locals are dropped in reverse order of declaration ---- *)
Main_DropUx ==
    /\ pc = "drop_ux"
    /\ DropBox("ux")
    /\ pc' = "drop_z"
    /\ UNCHANGED <<vecRef, lenRead, log, nalloc>>

Main_DropZ ==
    /\ pc = "drop_z"
    /\ DropBox("z")
    /\ pc' = "drop_x"
    /\ UNCHANGED <<vecRef, lenRead, log, nalloc>>

Main_DropX ==
    /\ pc = "drop_x"
    /\ DropBox("x")
    /\ pc' = "drop_bas"
    /\ UNCHANGED <<vecRef, lenRead, log, nalloc>>

Main_DropBas ==
    /\ pc = "drop_bas"
    /\ DropBox("bas")
    /\ pc' = "ret"
    /\ UNCHANGED <<vecRef, lenRead, log, nalloc>>

(* main returns: its frame, holding astruct, is gone. *)
Main_Return ==
    /\ pc = "ret"
    /\ live' = [live EXCEPT ![StackMain] = FALSE]
    /\ mem' = Fill(StackMain, UninitCell)
    /\ marked' = marked \ {StackMain}
    /\ box' = [box EXCEPT !["astruct"] = 0]
    /\ pc' = "done"
    /\ UNCHANGED <<vecRef, lenRead, log, nalloc, nfree, dblFree>>

Init ==
    /\ pc = "nu51"
    /\ mem = [a \in SlotAddrs |-> UninitCell]
    /\ live = [b \in AllBlocks |-> b = StackMain]
    /\ marked = {}
    /\ box = [h \in Handles |-> 0]
    /\ vecRef = 0
    /\ lenRead = 0
    /\ log = {}
    /\ nalloc = 0
    /\ nfree = 0
    /\ dblFree = FALSE

Next ==
    \/ NewUninit_Alloc \/ NewUninit_Write \/ NewUninit_Assume \/ NewUninit_Return
    \/ VecUninit \/ VecRef \/ VecReturn \/ Main_VecLen
    \/ Main_Astruct \/ Main_PrintAstruct
    \/ Box_New \/ Main_PatchBas \/ Main_PrintBas
    \/ MaybeUninit_Alloc \/ MaybeUninit_WriteU8 \/ MaybeUninit_WriteU32
    \/ MaybeUninit_WriteOp \/ MaybeUninit_Assume \/ MaybeUninit_Return
    \/ Main_PrintX \/ Main_AssertX \/ Main_RawPtrs
    \/ Zeroed_Alloc \/ Zeroed_WriteU8 \/ Zeroed_Assume \/ Zeroed_Return
    \/ Main_PrintZ \/ Main_PatchZ \/ Main_PrintZ2
    \/ Xstruct_Alloc \/ Xstruct_WriteF \/ Xstruct_WriteP \/ Xstruct_Assume
    \/ Main_PrintUx
    \/ Main_DropUx \/ Main_DropZ \/ Main_DropX \/ Main_DropBas \/ Main_Return

Spec == Init /\ [][Next]_vars


(* ======================= properties ======================= *)

(* The block of record r, also while its constructor still holds it. *)
RecBlk(r) ==
    IF box[r] # 0 THEN box[r]
    ELSE CASE r = "x" -> box["uas"]
           [] r = "z" -> box["uasz"]
           [] r = "ux" -> box["uxu"]
           [] OTHER -> 0

PtrCell(b, r) == mem[Addr(b, PtrOff(r))]
ValAddr(b, r) == Addr(b, ValOff(r))

(* r's reference field holds a typed, non-empty reference. *)
Populated(r) ==
    /\ RecBlk(r) # 0
    /\ PtrCell(RecBlk(r), r).st # "uninit"
    /\ PtrCell(RecBlk(r), r).v # 0

(* C1: the record test_maybe_uninit_astruct returns to main (x) has a      *)
(* non-empty op_a_u32 holding the address of its own a_u32, reading it     *)
(* through yields 456, and neither unwrap nor assert_eq at lines 101-103   *)
(* panics.                                                                 *)
C1_ReturnedRecordSelfRef ==
    /\ pc # "panicked"
    /\ box["x"] # 0 =>
          /\ PtrCell(box["x"], "x").st = "written"
          /\ PtrCell(box["x"], "x").v # 0
          /\ PtrCell(box["x"], "x").v = Addr(box["x"], OffU32)
          /\ ReadVals(PtrCell(box["x"], "x").v) = {456}

C1_Witness ==
    /\ pc = "m106"
    /\ box["x"] # 0
    /\ \E e \in log : e.k = "deref" /\ e.r = "x"

(* C2: in every state, for every record (bas, x, z, ux, from allocation to *)
(* release): a non-empty reference field holds the address of the value    *)
(* field of the same record, in storage that is live, and every read made  *)
(* through it gave what the value field holds.                             *)
C2_SelfRefTargetsOwnValue ==
    /\ \A r \in Records :
          Populated(r) =>
             /\ PtrCell(RecBlk(r), r).v = ValAddr(RecBlk(r), r)
             /\ live[RecBlk(r)]
             /\ ReadVals(PtrCell(RecBlk(r), r).v) = {mem[ValAddr(RecBlk(r), r)].v}
    /\ \A e \in log : e.k = "deref" => e.own /\ e.tlive /\ e.same

C2_Witness ==
    /\ pc = "m140"
    /\ \A r \in Records : Populated(r) /\ box[r] # 0
    /\ \A r \in {"bas", "x", "z"} : \E e \in log : e.k = "deref" /\ e.r = r

(* C3: whenever storage built by a raw constructor (uas/x, uasz/z, uxu/ux) *)
(* has been marked initialized, every field of the record was stored       *)
(* explicitly: none still has its allocation-time content.                 *)
C3_AllFieldsWrittenAtAssumeInit ==
    \A h \in {"uas", "x", "uasz", "z", "uxu", "ux"} :
        (box[h] # 0 /\ box[h] \in marked) =>
            \A f \in FieldsOf(h) : mem[Addr(box[h], f)].st = "written"

(* C4: main never holds a reference to a Vec whose storage was never       *)
(* initialized, and never reads a length through one.                      *)
C4_NoUninitVecHandle ==
    /\ ~(pc = "m84" /\ vecRef # 0 /\ mem[vecRef].st # "written")
    /\ \A e \in log : e.k = "veclen" => e.st = "written" /\ e.tlive

(* C5: every read through a reference field, and every unwrap of one, is   *)
(* made on a record whose reference field has been assigned; the records   *)
(* printed while it is still empty are not read through.                   *)
C5_NoDerefBeforeAssigned ==
    /\ \A e \in log :
          /\ e.k = "deref" => e.st = "written"
          /\ e.k = "unwrap" => e.st = "written" /\ e.some
    /\ \A e \in log : (e.k = "deref" /\ e.r = "z") => pc \notin {"m119", "m120"}
    /\ \A e \in log : e.k = "deref" => e.r # "astruct"

C5_Witness ==
    /\ pc = "drop_ux"
    /\ \A r \in Records : \E e \in log : e.k = "deref" /\ e.r = r
    /\ \E e \in log : e.k = "unwrap"
    /\ \E e \in log : e.k = "read" /\ e.r = "astruct"
    /\ \E e \in log : e.k = "read" /\ e.r = "z" /\ e.st = "zero" /\ e.f = OffOp

(* C6: from the step that populates a record's reference field until the   *)
(* step that drops the record, the record stays populated in the same live *)
(* block (so the address of its value field does not change), and no two   *)
(* reference fields hold the same address (no populated record is copied). *)
PtrSlots == {Addr(b, OffOp) : b \in AllBlocks}

NoCopiedRef ==
    \A a1, a2 \in PtrSlots :
        (a1 # a2 /\ mem[a1].st = "written" /\ mem[a1].v # 0) => mem[a1].v # mem[a2].v

DropPc(r) == CASE r = "ux" -> "drop_ux" [] r = "z" -> "drop_z"
               [] r = "x" -> "drop_x" [] OTHER -> "drop_bas"

StaysPut ==
    \A r \in Records :
        (Populated(r) /\ pc # DropPc(r)) =>
            /\ Populated(r)'
            /\ RecBlk(r)' = RecBlk(r)
            /\ live'[RecBlk(r)]
            /\ ValAddr(RecBlk(r), r)' = ValAddr(RecBlk(r), r)

C6_ValueAddressStable == [](NoCopiedRef) /\ [][StaysPut]_vars

C6_Witness ==
    /\ pc = "m106"
    /\ box["x"] # 0
    /\ Populated("x")
    /\ Populated("bas")

(* C7: once the Xstruct storage is marked initialized (ux), p holds the     *)
(* address of f of the same record and reading through p yields 47, as     *)
(* reading f does.                                                         *)
C7_XstructPointsAtF ==
    /\ box["ux"] # 0 =>
          /\ mem[Addr(box["ux"], OffP)] = Written(Addr(box["ux"], OffF))
          /\ ReadVals(mem[Addr(box["ux"], OffP)].v) = {47}
          /\ ReadVals(Addr(box["ux"], OffF)) = {47}
    /\ \A e \in log : (e.k = "deref" /\ e.r = "ux") => e.own /\ e.same

C7_Witness ==
    /\ pc = "drop_ux"
    /\ box["ux"] # 0
    /\ \E e \in log : e.k = "deref" /\ e.r = "ux"

(* C8: in the single-phase constructions (uas/x and uxu/ux) the reference  *)
(* field is stored only after the other fields, the storage is marked      *)
(* initialized only after the reference field holds the address of the     *)
(* value field in that storage, unmarked storage is held only by the       *)
(* constructing code, and no field is read before the mark or before it    *)
(* was stored.                                                             *)
C8_SinglePhaseOrder ==
    /\ \A h \in {"uas", "x", "uxu", "ux"} :
          box[h] # 0 =>
             /\ PtrCell(box[h], h).st = "written" =>
                   \A f \in FieldsOf(h) : mem[Addr(box[h], f)].st = "written"
             /\ box[h] \in marked =>
                   PtrCell(box[h], h) = Written(ValAddr(box[h], h))
             /\ box[h] \notin marked =>
                   /\ h \in {"uas", "uxu"}
                   /\ h = "uas" => pc \in {"mu28", "mu29", "mu30", "mu31"}
                   /\ h = "uxu" => pc \in {"m135", "m136", "m138"}
    /\ \A e \in log :
          (e.k = "read" /\ e.r \in {"uas", "x", "uxu", "ux"}) =>
              e.init /\ e.st = "written"

C8_Witness ==
    /\ pc = "drop_ux"
    /\ box["x"] \in marked
    /\ box["ux"] \in marked
    /\ \E e \in log : e.k = "read" /\ e.r = "x"
    /\ \E e \in log : e.k = "read" /\ e.r = "ux"

(* C9: in the two-phase constructions, bas and z reach main with an empty   *)
(* reference field and with small_tag and value holding defined content    *)
(* (bas: 1 and 123, both stored), and the patch step stores the address of *)
(* the record's own value field into the reference field and leaves        *)
(* small_tag and value as they were.                                       *)
TwoPhaseObtained ==
    /\ pc = "m95" =>
          /\ PtrCell(box["bas"], "bas").st # "uninit"
          /\ PtrCell(box["bas"], "bas").v = 0
          /\ mem[Addr(box["bas"], OffU8)] = Written(1)
          /\ mem[Addr(box["bas"], OffU32)] = Written(123)
    /\ pc \in {"m119", "m120"} =>
          /\ PtrCell(box["z"], "z").st # "uninit"
          /\ PtrCell(box["z"], "z").v = 0
          /\ mem[Addr(box["z"], OffU8)].st # "uninit"
          /\ mem[Addr(box["z"], OffU32)].st # "uninit"
    /\ \A e \in log : (e.k = "read" /\ e.r \in {"bas", "z"}) => e.st # "uninit"

PatchFrame(r, at) ==
    pc = at =>
        /\ mem'[Addr(box[r], OffOp)] = Written(Addr(box[r], OffU32))
        /\ mem'[Addr(box[r], OffU8)] = mem[Addr(box[r], OffU8)]
        /\ mem'[Addr(box[r], OffU32)] = mem[Addr(box[r], OffU32)]
        /\ box'[r] = box[r]

C9_TwoPhasePatch ==
    [](TwoPhaseObtained) /\ [][PatchFrame("bas", "m95") /\ PatchFrame("z", "m120")]_vars

C9_Witness ==
    /\ pc = "m121"
    /\ Populated("z")
    /\ Populated("bas")
    /\ \E e \in log : e.k = "read" /\ e.r = "z" /\ e.f = OffU32

(* C10: every live heap block is held by exactly one handle, no handle      *)
(* holds a released block, no block is released twice, the box of          *)
(* test_new_uninit is released when that function returns, every block is  *)
(* released by the time main has returned, and no reference field is read  *)
(* through after its target was released.                                  *)
C10_SingleOwnerReleasedOnce ==
    /\ \A b \in Blocks : live[b] => Cardinality({h \in Handles : box[h] = b}) = 1
    /\ \A h \in Handles : box[h] # 0 => live[box[h]]
    /\ ~dblFree
    /\ nalloc - nfree = Cardinality({b \in Blocks : live[b]})
    /\ pc = "dv68" => nalloc = nfree
    /\ pc \in {"m99", "m140"} => nfree = 1
    /\ pc = "done" => (nalloc = nfree /\ \A b \in AllBlocks : ~live[b])
    /\ \A e \in log : e.k = "deref" => e.tlive

C10_Witness ==
    /\ pc = "done"
    /\ nalloc = 5
    /\ nfree = 5

====
